---------------------------- MODULE Spec2Model ----------------------------
(***************************************************************************)
(* The concurrent, rate-limited, retrying crawler of                       *)
(* master-code/risalah-scraper.py: the global post_queue, the worker       *)
(* threads of the ThreadPoolExecutor, RateLimiter.wait, the tenacity       *)
(* retry wrapper around scrape_article, and the two sinks (the file tree   *)
(* under ARTICLES_PATH and the articles table).                            *)
(***************************************************************************)
EXTENDS Integers, Sequences, FiniteSets, TLC

(***************************************************************************)
(* Bounds of the model and constants of the program.                       *)
(***************************************************************************)
\* Number of worker threads explored (the program's NUM_WORKERS is 5).
NumWorkers == 2
\* scrape_all_articles(start_id, end_id): the range explored.
StartId == 9999
NumPosts == 3
EndId == StartId + NumPosts - 1
\* The clock is explored until ClockSlack ticks past the end of the limiter's
\* interval: a later reading of it takes the same branch of line 37 as the
\* reading at the interval's end.
ClockSlack == 0
\* At most this many writes of a run fail for a reason outside the program (an
\* OSError while writing the file, a sqlite3.OperationalError).
MaxSinkFaults == 1
\* RATE_LIMIT (requests per second); the clock counts TicksPerInterval ticks
\* in the limiter's interval of 1 / RATE_LIMIT seconds.
RATE_LIMIT == 5
TicksPerInterval == 2
TicksPerSecond == RATE_LIMIT * TicksPerInterval
\* 1 / self.rate, in ticks.
Interval == TicksPerSecond \div RATE_LIMIT
\* stop_after_attempt(3)
MaxAttempts == 3
\* post_id // 10000 * 10000
BucketWidth == 10000
\* headline[:50]
PrefixLen == 50

Workers == 1..NumWorkers
Ids == StartId..EndId

(***************************************************************************)
(* Text is a sequence of characters (a default text is one unit); None is  *)
(* a tag that soup.find did not find.                                      *)
(***************************************************************************)
None == <<"<None>">>
Whitespace == {" ", "\n"}

RECURSIVE LStrip(_)
LStrip(s) ==
    IF s # <<>> /\ Head(s) \in Whitespace THEN LStrip(Tail(s)) ELSE s

RECURSIVE RStrip(_)
RStrip(s) ==
    IF s # <<>> /\ s[Len(s)] \in Whitespace
    THEN RStrip(SubSeq(s, 1, Len(s) - 1))
    ELSE s

\* str.strip()
Strip(s) == RStrip(LStrip(s))

\* sep.join(parts)
RECURSIVE StrJoin(_, _)
StrJoin(parts, sep) ==
    IF parts = <<>> THEN <<>>
    ELSE IF Len(parts) = 1 THEN parts[1]
    ELSE parts[1] \o sep \o StrJoin(Tail(parts), sep)

\* tag.get_text(separator, strip=True): every text node stripped, the empty
\* ones left out, the rest joined by the separator.
GetText(nodes, sep) ==
    LET stripped == [i \in 1..Len(nodes) |-> Strip(nodes[i])]
    IN  StrJoin(SelectSeq(stripped, LAMBDA t : t # <<>>), sep)

\* A content container is a sequence of text nodes, each inside a nested
\* 'p-3' div or not. p3_div.decompose() removes the nested ones.
Decompose(container) ==
    LET kept == SelectSeq(container, LAMBDA n : ~n.p3)
    IN  [i \in 1..Len(kept) |-> kept[i].text]

\* The text of the first container alone.
ArticleContentFirstOnly(doc) ==
    IF doc.blocks = <<>> THEN <<>>
    ELSE GetText(Decompose(doc.blocks[1]), <<"\n">>)

\* article_texts and article_content (lines 94-101).
ArticleContent(doc) ==
    LET article_texts ==
            [i \in 1..Len(doc.blocks) |-> GetText(Decompose(doc.blocks[i]), <<"\n">>)]
    IN  StrJoin(article_texts, <<"\n">>)

\* if article_content.strip(): (line 104)
HasContent(content) == Strip(content) # <<>>

\* headline_tag / time_tag / source_tag .get_text(strip=True)
TagText(tag, default) == IF tag = None THEN default ELSE GetText(<<tag>>, <<>>)

\* Lines 84-89. The breadcrumb is found or not; li holds, for each of its
\* li entries, the text of the entry's link or None. find_all('li')[-1] of a
\* breadcrumb without entries raises IndexError.
CategoryRaises(doc) == doc.crumb.found /\ doc.crumb.li = <<>>
Category(doc) ==
    IF ~doc.crumb.found THEN <<"No Category">>
    ELSE LET category_link == doc.crumb.li[Len(doc.crumb.li)]
         IN  IF category_link = None THEN <<"No Category">>
             ELSE GetText(<<category_link>>, <<>>)

\* The values bound by the INSERT and written to the file (lines 78-101).
Record(post_id, doc) ==
    [id |-> post_id,
     headline |-> TagText(doc.headline, <<>>),
     published |-> TagText(doc.time, <<"No Date">>),
     category |-> Category(doc),
     source |-> TagText(doc.source, <<"No Source">>),
     content |-> ArticleContent(doc)]

\* The multiple of the width above the identifier's bucket.
BucketHiExclusive(post_id) == ((post_id \div BucketWidth) + 1) * BucketWidth

\* The bucket directory of line 105.
BucketLo(post_id) == (post_id \div BucketWidth) * BucketWidth
BucketHi(post_id) == ((post_id \div BucketWidth) + 1) * BucketWidth - 1

\* headline[:50].replace('/', '-')
Prefix(headline) ==
    LET n == IF Len(headline) < PrefixLen THEN Len(headline) ELSE PrefixLen
    IN  [i \in 1..n |-> IF headline[i] = "/" THEN "-" ELSE headline[i]]

\* filepath (lines 105-109): directory and file name.
FilePath(rec) == <<BucketLo(rec.id), BucketHi(rec.id), rec.id, Prefix(rec.headline)>>

(***************************************************************************)
(* The documents the site may serve.                                       *)
(***************************************************************************)
Node(inP3, t) == [p3 |-> inP3, text |-> t]
Doc(h, t, c, s, b) == [headline |-> h, time |-> t, crumb |-> c, source |-> s, blocks |-> b]
NoCrumb == [found |-> FALSE, li |-> <<>>]
Crumb(entries) == [found |-> TRUE, li |-> entries]

Docs ==
    { \* Example B of the design: all tags present, two content blocks.
      Doc(<<"X">>, <<"T">>, Crumb(<< <<"N">>, <<"P">> >>), <<"S">>,
          << <<Node(FALSE, <<"A">>)>>, <<Node(FALSE, <<" ", "B">>), Node(TRUE, <<"J">>)>> >>),
      \* Another headline, optional tags absent, breadcrumb entry without link.
      Doc(<<"Y", "/">>, None, Crumb(<<None>>), None, << <<Node(FALSE, <<"A">>)>> >>),
      \* No headline tag.
      Doc(None, None, NoCrumb, None, << <<Node(FALSE, <<"A">>)>> >>),
      \* Headline, no content container.
      Doc(<<"X">>, None, NoCrumb, None, <<>>),
      \* Headline, containers holding only whitespace and a share block.
      Doc(<<"X">>, None, NoCrumb, None,
          << <<Node(FALSE, <<" ">>)>>, <<Node(TRUE, <<"J">>)>> >>),
      \* Breadcrumb without entries, with content.
      Doc(<<"X">>, None, Crumb(<<>>), None, << <<Node(FALSE, <<"A">>)>> >>),
      \* Breadcrumb without entries, empty content.
      Doc(<<"X">>, None, Crumb(<<>>), None, <<>>) }

\* response.status_code. A session.get that raises (no response) takes the
\* path of a 500: both raise a RequestException inside the try block.
StatusCodes == {200, 404, 500}

\* if response.status_code == 404: return (line 65)
IsNotFoundNever(code) == FALSE
IsNotFound(code) == code = 404

\* session.get raising, or response.raise_for_status() (line 69).
IsRequestException(code) == code >= 400

(***************************************************************************)
(* RateLimiter.wait: the sleep of line 38.                                 *)
(***************************************************************************)
SleepTimeShort(elapsed) == Interval - elapsed - 1
SleepTime(elapsed) == Interval - elapsed

\* post_queue.get(): what is left in the queue.
RestAfterPeek(q) == q
RestAfterGet(q) == Tail(q)

\* tenacity: stop=stop_after_attempt(3); no retry= argument, so the default
\* retry_if_exception_type() applies: any exception is retried.
StopAfterAttempt(attempt_number) == attempt_number >= MaxAttempts
RetryIf(kind) == kind \in {"transient", "fatal"}

\* wait=wait_exponential(multiplier=1, min=4, max=10), exp_base left at
\* its default of 2: after the attempt numbered attempt_number has failed,
\* tenacity sleeps max(min, min(multiplier * exp_base^(attempt_number - 1), max))
\* seconds.
WaitMultiplier == 1
WaitMin == 4
WaitMax == 10
ExpBase == 2
Smaller(a, b) == IF a < b THEN a ELSE b
Larger(a, b) == IF a > b THEN a ELSE b
WaitExponential(attempt_number) ==
    Larger(WaitMin, Smaller(WaitMultiplier * ExpBase ^ (attempt_number - 1), WaitMax))

NoRec == [id |-> 0, headline |-> <<>>, published |-> <<>>, category |-> <<>>,
          source |-> <<>>, content |-> <<>>]

(***************************************************************************)
(* State.                                                                  *)
(***************************************************************************)
VARIABLES
    mainpc,     \* scrape_all_articles: "seed", "submit", "join", "returned", "raised"
    nextPut,    \* the loop variable of lines 148-149
    queue,      \* post_queue
    pc,         \* each worker thread's position
    cur,        \* worker's post_id (0: none)
    attempt,    \* tenacity's attempt_number of the worker's running call
    resp,       \* status code of the worker's last response (-1: none yet)
    exc,        \* the exception the worker's last attempt raised ("none", "transient", "fatal")
    rec,        \* the values the worker is about to persist
    permit,     \* the worker returned from rate_limiter.wait() and made no request since
    lock,       \* RateLimiter.lock: its holder (0: free)
    timestamp,  \* RateLimiter.timestamp
    wake,       \* when the worker's time.sleep of line 38 may return
    now,        \* time.time()
    status,     \* each identifier's WorkItem status
    dirs,       \* the bucket directories that exist
    files,      \* the files under ARTICLES_PATH
    rows,       \* the rows of the articles table
    faults,     \* the sink writes that failed so far
    conn        \* whether a sqlite3 connection the worker opened is still open

vars == <<mainpc, nextPut, queue, pc, cur, attempt, resp, exc, rec, permit,
          lock, timestamp, wake, now, status, dirs, files, rows, faults, conn>>

limiterVars == <<lock, timestamp, wake>>
sinkVars == <<dirs, files, rows, faults, conn>>
mainVars == <<mainpc, nextPut>>
callVars == <<attempt, resp, exc, rec>>

\* A fresh run: scrape_all_articles has built its RateLimiter (line 146, at
\* time 0), post_queue is empty, and so are the output tree (lines 21-22) and
\* the articles table (init_database, line 159).
Init ==
    /\ mainpc = "seed"
    /\ nextPut = StartId
    /\ queue = <<>>
    /\ pc = [w \in Workers |-> "idle"]
    /\ cur = [w \in Workers |-> 0]
    /\ attempt = [w \in Workers |-> 0]
    /\ resp = [w \in Workers |-> -1]
    /\ exc = [w \in Workers |-> "none"]
    /\ rec = [w \in Workers |-> NoRec]
    /\ permit = [w \in Workers |-> FALSE]
    /\ lock = 0
    /\ timestamp = 0
    /\ wake = [w \in Workers |-> 0]
    /\ now = 0
    /\ status = [i \in Ids |-> "Pending"]
    /\ dirs = {}
    /\ files = {}
    /\ rows = {}
    /\ faults = 0
    /\ conn = [w \in Workers |-> "closed"]

(***************************************************************************)
(* scrape_all_articles                                                     *)
(***************************************************************************)
\* for post_id in range(start_id, end_id + 1): post_queue.put(post_id)
Put ==
    /\ mainpc = "seed"
    /\ IF nextPut <= EndId
       THEN /\ queue' = Append(queue, nextPut)
            /\ nextPut' = nextPut + 1
            /\ mainpc' = mainpc
       ELSE /\ mainpc' = "submit"
            /\ UNCHANGED <<queue, nextPut>>
    /\ UNCHANGED <<pc, cur, callVars, permit, limiterVars, now, status, sinkVars>>

\* futures = [executor.submit(worker, session, rate_limiter) ...]
Submit ==
    /\ mainpc = "submit"
    /\ mainpc' = "join"
    /\ pc' = [w \in Workers |-> "check"]
    /\ UNCHANGED <<nextPut, queue, cur, callVars, permit, limiterVars, now, status, sinkVars>>

\* for future in as_completed(futures): future.result(), and the executor's
\* shutdown(wait=True) on leaving the with block: the call ends when every
\* worker has ended, raising what a worker raised.
AwaitWorkers ==
    /\ mainpc = "join"
    /\ \A w \in Workers : pc[w] \in {"exited", "crashed"}
    /\ mainpc' = IF \E w \in Workers : pc[w] = "crashed" THEN "raised" ELSE "returned"
    /\ UNCHANGED <<nextPut, queue, pc, cur, callVars, permit, limiterVars, now, status, sinkVars>>

(***************************************************************************)
(* worker                                                                  *)
(***************************************************************************)
\* while not post_queue.empty(): on entry, and after the sleep of line 142.
LoopCheck(w) ==
    /\ pc[w] \in {"check", "courtesy"}
    /\ pc' = [pc EXCEPT ![w] = IF queue = <<>> THEN "exited" ELSE "get"]
    /\ UNCHANGED <<mainVars, queue, cur, callVars, permit, limiterVars, now, status, sinkVars>>

\* post_id = post_queue.get(): blocks while the queue is empty.
Get(w) ==
    /\ pc[w] = "get"
    /\ queue # <<>>
    /\ cur' = [cur EXCEPT ![w] = Head(queue)]
    /\ queue' = RestAfterGet(queue)
    /\ status' = [status EXCEPT ![Head(queue)] = "InProgress"]
    /\ pc' = [pc EXCEPT ![w] = "acquire"]
    /\ UNCHANGED <<mainVars, callVars, permit, limiterVars, now, sinkVars>>

(***************************************************************************)
(* RateLimiter.wait                                                        *)
(***************************************************************************)
\* with self.lock:
\*     elapsed = time.time() - self.timestamp
\*     if elapsed < 1 / self.rate: time.sleep((1 / self.rate) - elapsed)
Acquire(w) ==
    /\ pc[w] = "acquire"
    /\ lock = 0
    /\ lock' = w
    /\ LET elapsed == now - timestamp
       IN  IF elapsed < Interval
           THEN /\ wake' = [wake EXCEPT ![w] = now + SleepTime(elapsed)]
                /\ pc' = [pc EXCEPT ![w] = "sleep"]
           ELSE /\ wake' = wake
                /\ pc' = [pc EXCEPT ![w] = "stamp"]
    /\ UNCHANGED <<mainVars, queue, cur, callVars, permit, timestamp, now, status, sinkVars>>

\* time.sleep returns, no sooner than asked.
Wake(w) ==
    /\ pc[w] = "sleep"
    /\ now >= wake[w]
    /\ wake' = [wake EXCEPT ![w] = 0]
    /\ pc' = [pc EXCEPT ![w] = "stamp"]
    /\ UNCHANGED <<mainVars, queue, cur, callVars, permit, lock, timestamp, now, status, sinkVars>>

\* The timestamp update with the lock kept past the return of wait.
StampHoldingLock(w) ==
    /\ pc[w] = "stamp"
    /\ timestamp' = now
    /\ lock' = lock
    /\ permit' = [permit EXCEPT ![w] = TRUE]
    /\ attempt' = [attempt EXCEPT ![w] = 0]
    /\ pc' = [pc EXCEPT ![w] = "request"]
    /\ UNCHANGED <<mainVars, queue, cur, resp, exc, rec, wake, now, status, sinkVars>>

\* self.timestamp = time.time(), the lock released on leaving the with block,
\* and wait returns: the worker calls scrape_article (attempt 1 is next).
Stamp(w) ==
    /\ pc[w] = "stamp"
    /\ timestamp' = now
    /\ lock' = 0
    /\ permit' = [permit EXCEPT ![w] = TRUE]
    /\ attempt' = [attempt EXCEPT ![w] = 0]
    /\ pc' = [pc EXCEPT ![w] = "request"]
    /\ UNCHANGED <<mainVars, queue, cur, resp, exc, rec, wake, now, status, sinkVars>>

\* The clock advances.
Tick ==
    /\ now - timestamp < Interval + ClockSlack
    /\ now' = now + 1
    /\ UNCHANGED <<mainVars, queue, pc, cur, callVars, permit, limiterVars, status, sinkVars>>

(***************************************************************************)
(* scrape_article under the retry wrapper                                  *)
(***************************************************************************)
\* An attempt numbered n ends by raising an exception of the given kind:
\* tenacity retries it after the backoff wait, or, once stop_after_attempt
\* says stop, raises RetryError, which nothing in worker catches: the worker
\* thread ends. The attempt's record is dead either way.
Raises(w, n, kind) ==
    LET giveUp == StopAfterAttempt(n) \/ ~RetryIf(kind)
    IN  /\ exc' = [exc EXCEPT ![w] = kind]
        /\ attempt' = [attempt EXCEPT ![w] = n]
        /\ rec' = [rec EXCEPT ![w] = NoRec]
        /\ pc' = [pc EXCEPT ![w] = IF giveUp THEN "crashed" ELSE "backoff"]
        /\ status' = IF giveUp THEN [status EXCEPT ![cur[w]] = "Failed"] ELSE status

\* The attempt returns normally: scrape_article returns to worker.
Returns(w, n, outcome) ==
    /\ exc' = [exc EXCEPT ![w] = "none"]
    /\ attempt' = [attempt EXCEPT ![w] = n]
    /\ rec' = rec
    /\ pc' = [pc EXCEPT ![w] = "task_done"]
    /\ status' = [status EXCEPT ![cur[w]] = outcome]

\* response = session.get(article_url) and lines 65-106: the response is
\* classified, the fields are extracted, and the bucket directory is looked up.
RequestWith(w, code, doc) ==
    /\ pc[w] = "request"
    /\ permit' = [permit EXCEPT ![w] = FALSE]
    /\ resp' = [resp EXCEPT ![w] = code]
    /\ IF IsNotFound(code)
       THEN Returns(w, attempt[w] + 1, "Skipped")
       ELSE IF IsRequestException(code)
       THEN Raises(w, attempt[w] + 1, "transient")
       ELSE IF doc.headline = None
       THEN Returns(w, attempt[w] + 1, "Skipped")
       ELSE IF CategoryRaises(doc)
       THEN Raises(w, attempt[w] + 1, "fatal")
       ELSE IF ~HasContent(ArticleContent(doc))
       THEN Returns(w, attempt[w] + 1, "Skipped")
       ELSE /\ rec' = [rec EXCEPT ![w] = Record(cur[w], doc)]
            /\ attempt' = [attempt EXCEPT ![w] = attempt[w] + 1]
            /\ exc' = [exc EXCEPT ![w] = "none"]
            /\ pc' = [pc EXCEPT ![w] =
                        IF BucketLo(cur[w]) \in dirs THEN "write" ELSE "makedirs"]
            /\ status' = status
    /\ UNCHANGED <<mainVars, queue, cur, limiterVars, now, sinkVars>>

\* The site answers with any status code and any document.
Request(w) == \E code \in StatusCodes, doc \in Docs : RequestWith(w, code, doc)

\* os.makedirs(directory): raises FileExistsError when another worker made
\* the directory since line 106 looked.
MakeDirs(w) ==
    /\ pc[w] = "makedirs"
    /\ IF BucketLo(cur[w]) \in dirs
       THEN /\ Raises(w, attempt[w], "fatal")
            /\ dirs' = dirs
       ELSE /\ dirs' = dirs \cup {BucketLo(cur[w])}
            /\ pc' = [pc EXCEPT ![w] = "write"]
            /\ UNCHANGED <<exc, attempt, rec, status>>
    /\ UNCHANGED <<mainVars, queue, cur, resp, permit, limiterVars, now, files, rows, faults, conn>>

\* The attempt goes on to the INSERT with no file written.
WriteFileSkipped(w) ==
    /\ pc[w] = "write"
    /\ files' = files
    /\ pc' = [pc EXCEPT ![w] = "insert"]
    /\ UNCHANGED <<mainVars, queue, cur, callVars, permit, limiterVars, now, status, dirs, rows, faults, conn>>

\* open(filepath, 'w') truncates or creates the file; the five writes follow.
WriteFile(w) ==
    /\ pc[w] = "write"
    /\ files' = {f \in files : f.path # FilePath(rec[w])}
                  \cup {[path |-> FilePath(rec[w]), data |-> rec[w], complete |-> TRUE]}
    /\ pc' = [pc EXCEPT ![w] = "insert"]
    /\ UNCHANGED <<mainVars, queue, cur, callVars, permit, limiterVars, now, status, dirs, rows, faults, conn>>

\* A write of lines 111-115 raises OSError: the file is left incomplete.
WriteFileFails(w) ==
    /\ pc[w] = "write"
    /\ faults < MaxSinkFaults
    /\ faults' = faults + 1
    /\ files' = {f \in files : f.path # FilePath(rec[w])}
                  \cup {[path |-> FilePath(rec[w]), data |-> rec[w], complete |-> FALSE]}
    /\ Raises(w, attempt[w], "fatal")
    /\ UNCHANGED <<mainVars, queue, cur, resp, permit, limiterVars, now, dirs, rows, conn>>

\* conn.close() (line 126) is reached when the INSERT and the commit
\* returned, and only then: an exception raised by line 121 or 125 leaves the
\* function with the connection of line 119 open.
ConnAfterInsert(raised) == IF raised THEN "open" ELSE "closed"

\* Lines 119-126: connect, INSERT, commit, close. id is the PRIMARY KEY: the
\* INSERT of an id that has a row raises sqlite3.IntegrityError.
Insert(w) ==
    /\ pc[w] = "insert"
    /\ IF \E r \in rows : r.id = rec[w].id
       THEN /\ Raises(w, attempt[w], "fatal")
            /\ rows' = rows
            /\ conn' = [conn EXCEPT ![w] = ConnAfterInsert(TRUE)]
       ELSE /\ rows' = rows \cup {rec[w]}
            /\ Returns(w, attempt[w], "Done")
            /\ conn' = [conn EXCEPT ![w] =
                          IF conn[w] = "open" THEN "open" ELSE ConnAfterInsert(FALSE)]
    /\ UNCHANGED <<mainVars, queue, cur, resp, permit, limiterVars, now, dirs, files, faults>>

\* The INSERT or the commit raises sqlite3.OperationalError (the database is
\* locked by another writer for longer than the timeout): no row is stored.
InsertFails(w) ==
    /\ pc[w] = "insert"
    /\ faults < MaxSinkFaults
    /\ faults' = faults + 1
    /\ Raises(w, attempt[w], "fatal")
    /\ conn' = [conn EXCEPT ![w] = ConnAfterInsert(TRUE)]
    /\ UNCHANGED <<mainVars, queue, cur, resp, permit, limiterVars, now, dirs, files, rows>>

\* A connection that was left open is closed when the garbage collector
\* finalizes it: at no moment the program fixes.
Finalize(w) ==
    /\ conn[w] = "open"
    /\ conn' = [conn EXCEPT ![w] = "closed"]
    /\ UNCHANGED <<mainVars, queue, pc, cur, callVars, permit, limiterVars, now, status,
                   dirs, files, rows, faults>>

\* The wait of wait_exponential ends; the next attempt follows.
Backoff(w) ==
    /\ pc[w] = "backoff"
    /\ pc' = [pc EXCEPT ![w] = "request"]
    /\ exc' = [exc EXCEPT ![w] = "none"]
    /\ resp' = [resp EXCEPT ![w] = -1]
    /\ UNCHANGED <<mainVars, queue, cur, attempt, rec, permit, limiterVars, now, status, sinkVars>>

\* post_queue.task_done(), then time.sleep(random.uniform(1, 3)) begins; the
\* call's locals are dead from here on.
TaskDone(w) ==
    /\ pc[w] = "task_done"
    /\ pc' = [pc EXCEPT ![w] = "courtesy"]
    /\ cur' = [cur EXCEPT ![w] = 0]
    /\ attempt' = [attempt EXCEPT ![w] = 0]
    /\ resp' = [resp EXCEPT ![w] = -1]
    /\ rec' = [rec EXCEPT ![w] = NoRec]
    /\ UNCHANGED <<mainVars, queue, exc, permit, limiterVars, now, status, sinkVars>>

WorkerStep(w) ==
    \/ LoopCheck(w) \/ Get(w)
    \/ Acquire(w) \/ Wake(w) \/ Stamp(w)
    \/ Request(w) \/ MakeDirs(w) \/ WriteFile(w) \/ WriteFileFails(w)
    \/ Insert(w) \/ InsertFails(w) \/ Finalize(w) \/ Backoff(w)
    \/ TaskDone(w)

Next ==
    \/ Put \/ Submit \/ AwaitWorkers \/ Tick
    \/ \E w \in Workers : WorkerStep(w)

Spec == Init /\ [][Next]_vars

(***************************************************************************)
(* Properties                                                              *)
(***************************************************************************)
Terminal == {"Done", "Skipped", "Failed"}
WorkersEnded == mainpc # "seed" /\ \A w \in Workers : pc[w] \in {"exited", "crashed"}
InQueue(id) == \E k \in 1..Len(queue) : queue[k] = id
HasFile(id) == \E f \in files : f.data.id = id
HasRow(id) == \E r \in rows : r.id = id
InLimiter(w) == pc[w] \in {"sleep", "stamp"}
Granted(w) == pc[w] = "stamp" /\ pc'[w] = "request"

\* C1: once every worker thread has ended, every identifier of the range has
\* left the queue and has a terminal status (Done, Skipped or Failed).
C1_AllTerminalWhenWorkersEnded ==
    WorkersEnded =>
        \A id \in Ids : status[id] \in Terminal /\ ~InQueue(id)

\* C2: no worker blocks forever in post_queue.get(): a worker that passed the
\* emptiness check never finds the queue empty at its get (nothing is put
\* after the seeding, so such a worker never leaves the get).
C2_NoWorkerBlockedOnGet ==
    \A w \in Workers : pc[w] = "get" => queue # <<>>

\* C3: a failed item never ends the worker that handled it: no worker thread
\* is ended by an exception, so the number of live workers does not drop
\* while identifiers are left.
C3_FailureKeepsWorkerAlive ==
    \A w \in Workers : pc[w] # "crashed"

\* C4: at most one worker is inside the critical section of RateLimiter.wait,
\* every permit is granted at least 1/rate after the one before it, and the
\* shared timestamp never decreases.
C4_PermitsSpaced ==
    /\ [](\A w \in Workers : InLimiter(w) =>
             lock = w /\ \A v \in Workers \ {w} : ~InLimiter(v))
    /\ [][/\ timestamp' >= timestamp
          /\ \A w \in Workers : Granted(w) => timestamp' >= timestamp + Interval]_vars

\* Two permits have been granted, to two workers, the second after a sleep.
C4_Witness ==
    /\ timestamp >= 2 * Interval
    /\ \E w \in Workers, v \in Workers :
         /\ w # v
         /\ pc[w] = "request" /\ permit[w]
         /\ cur[v] # 0 /\ pc[v] \in {"request", "backoff", "makedirs", "write", "insert", "task_done"}

\* C5: every request is made with a permit of its own: a worker about to call
\* session.get returned from rate_limiter.wait() since its previous request.
C5_EveryRequestHasPermit ==
    \A w \in Workers : pc[w] = "request" => permit[w]

\* C6: the queue holds the identifiers in ascending order, each at most once,
\* and after the seeding every identifier of the range is queued or was
\* handed out; an identifier in the queue was handed to nobody, and an
\* identifier in progress is held by exactly one worker: no two workers hold
\* the same one.
C6_EachIdToOneWorker ==
    /\ mainpc # "seed" => \A id \in Ids : InQueue(id) \/ status[id] # "Pending"
    /\ \A k \in 1..Len(queue) :
         /\ queue[k] \in Ids /\ queue[k] < nextPut
         /\ k > 1 => queue[k - 1] < queue[k]
         /\ status[queue[k]] = "Pending"
         /\ \A w \in Workers : cur[w] # queue[k]
    /\ \A id \in Ids :
         /\ id >= nextPut => status[id] = "Pending" /\ \A w \in Workers : cur[w] # id
         /\ status[id] = "InProgress" => Cardinality({w \in Workers : cur[w] = id}) = 1
         /\ Cardinality({w \in Workers : cur[w] = id}) <= 1

\* Two workers hold two identifiers while a third is still queued.
C6_Witness ==
    /\ queue # <<>>
    /\ \E w \in Workers, v \in Workers :
         w # v /\ cur[w] # 0 /\ cur[v] # 0 /\ status[cur[w]] = "InProgress"
               /\ status[cur[v]] = "InProgress"

\* C7: at most 3 attempts are made for an identifier, and a further attempt
\* is scheduled only after an attempt that failed transiently.
C7_RetryOnlyAfterTransient ==
    \A w \in Workers :
        /\ attempt[w] <= MaxAttempts
        /\ pc[w] = "backoff" => exc[w] = "transient"

\* C8: a 404 response ends the call at once: it raises nothing, no further
\* attempt follows it, the identifier is Skipped and the worker goes on to
\* task_done; the attempt writes no file and inserts no row, so an identifier
\* whose first response is a 404 has neither.
C8_NotFoundSkips ==
    /\ [](\A w \in Workers : resp[w] = 404 =>
             /\ pc[w] = "task_done" /\ exc[w] = "none"
             /\ status[cur[w]] = "Skipped"
             /\ attempt[w] = 1 => ~HasFile(cur[w]) /\ ~HasRow(cur[w]))
    /\ [][\A w \in Workers :
            /\ (resp'[w] = 404 /\ resp[w] # 404) => files' = files /\ rows' = rows
            /\ resp[w] = 404 => attempt'[w] \in {attempt[w], 0}]_vars

\* A worker got a 404 on the first attempt for its identifier.
C8_Witness ==
    \E w \in Workers :
        /\ resp[w] = 404 /\ attempt[w] = 1 /\ pc[w] = "task_done"
        /\ status[cur[w]] = "Skipped" /\ ~HasFile(cur[w]) /\ ~HasRow(cur[w])

\* C9: an attempt that fails with anything but a request error is never
\* retried: the identifier ends Failed after exactly one attempt.
C9_FatalNeverRetried ==
    \A w \in Workers :
        exc[w] = "fatal" => pc[w] = "crashed" /\ attempt[w] = 1

NoContent(doc) == doc.headline = None \/ ~HasContent(ArticleContent(doc))

\* C10: a document without headline, or with a headline and empty or
\* whitespace-only content, is skipped at once (nothing raised, no file, no
\* row), and every file and every row holds non-empty content.
C10_NoContentSkipped ==
    /\ [](/\ \A f \in files : HasContent(f.data.content)
          /\ \A r \in rows : HasContent(r.content))
    /\ [][\A w \in Workers, doc \in Docs :
            (NoContent(doc) /\ RequestWith(w, 200, doc)) =>
                /\ pc'[w] = "task_done" /\ exc'[w] = "none"
                /\ status'[cur[w]] = "Skipped"
                /\ files' = files /\ rows' = rows]_vars

FilesOf(id) == {f \in files : f.data.id = id}
RowsOf(id) == {r \in rows : r.id = id}

\* C11: in every reachable state the output tree holds at most one file per
\* identifier and the articles table holds at most one row per identifier.
C11_OneFileOneRowPerId ==
    \A id \in Ids : Cardinality(FilesOf(id)) <= 1 /\ Cardinality(RowsOf(id)) <= 1

\* scrape_all_articles has no return statement (lines 145-156): the call
\* that returns evaluates to None, and worker (lines 136-142) counts nothing.
ReturnValue == None
CountOf(outcome) == Cardinality({id \in Ids : status[id] = outcome})

\* C12: a run of scrape_all_articles that has ended yields the counts
\* succeeded, skipped and failed; they sum to the number of identifiers
\* seeded, succeeded is the number of identifiers persisted and failed the
\* number of identifiers whose attempts were exhausted.
C12_RunYieldsCounts ==
    mainpc \in {"returned", "raised"} =>
        /\ ReturnValue # None
        /\ ReturnValue.succeeded + ReturnValue.skipped + ReturnValue.failed = NumPosts
        /\ ReturnValue.succeeded = CountOf("Done")
        /\ ReturnValue.failed = CountOf("Failed")

\* The text of one content container, its share blocks removed.
ContainerText(block) == GetText(Decompose(block), <<"\n">>)
Persists(w) == pc'[w] \in {"makedirs", "write"}

\* C13: for every identifier that is Done, the row of the identifier and the
\* file written for it carry the same values of id, headline, published,
\* category, source and content; the published text and the source are the
\* tag's text or the default, and the content is the texts of all content
\* containers, in document order, joined by newlines.
C13_RowMatchesFile ==
    /\ [](\A id \in Ids : status[id] = "Done" =>
             \E r \in rows, f \in files :
                 r.id = id /\ f.complete /\ f.data = r /\ f.path = FilePath(r))
    /\ [][\A w \in Workers, doc \in Docs :
            (pc[w] = "request" /\ Persists(w) /\ RequestWith(w, 200, doc)) =>
                /\ rec'[w].id = cur[w]
                /\ doc.time = None => rec'[w].published = <<"No Date">>
                /\ doc.source = None => rec'[w].source = <<"No Source">>
                /\ rec'[w].content =
                     StrJoin([i \in 1..Len(doc.blocks) |-> ContainerText(doc.blocks[i])],
                             <<"\n">>)]_vars
    /\ [][\A w \in Workers :
            (pc[w] = "insert" /\ pc'[w] = "task_done") =>
                /\ rows' = rows \cup {rec[w]}
                /\ \E f \in files : f.complete /\ f.data = rec[w]]_vars

\* An identifier is Done with the content of two containers in its row and
\* in its file.
C13_Witness ==
    \E id \in Ids :
        /\ status[id] = "Done"
        /\ \E r \in rows, f \in files :
             r.id = id /\ f.data = r /\ f.complete /\ r.content = <<"A", "\n", "B">>

\* Identifiers at and around bucket boundaries, and the range of line 162.
ProbeIds == Ids \cup {0, 1, BucketWidth - 1, BucketWidth, 2 * BucketWidth - 1,
                      2 * BucketWidth, 273293, 279999, 280000, 301000}
SameBucket(i, j) == BucketLo(i) = BucketLo(j) /\ BucketHi(i) = BucketHi(j)
BucketLaw ==
    /\ \A id \in ProbeIds :
         /\ BucketLo(id) % BucketWidth = 0
         /\ BucketHi(id) = BucketLo(id) + BucketWidth - 1
         /\ BucketLo(id) <= id /\ id <= BucketHi(id)
    /\ \A i \in ProbeIds, j \in ProbeIds :
         SameBucket(i, j) <=> (i \div BucketWidth = j \div BucketWidth)

\* C14: the bucket directory of an identifier id >= 0 is named lo-hi with
\* lo = floor(id / 10000) * 10000 and hi = lo + 9999: lo <= id <= hi, lo is a
\* multiple of 10000, and two identifiers share a directory exactly when they
\* have the same floor(id / 10000). Every file lies in the bucket of its
\* identifier, in a directory that exists.
C14_BucketOfId ==
    /\ BucketLaw
    /\ \A f \in files :
         /\ f.path[1] = BucketLo(f.data.id) /\ f.path[2] = BucketHi(f.data.id)
         /\ f.path[1] <= f.data.id /\ f.data.id <= f.path[2]
         /\ f.path[1] \in dirs

\* Files of three identifiers exist: two share a bucket, the third lies in
\* the bucket below.
C14_Witness ==
    \E f \in files, g \in files, h \in files :
        /\ f.data.id # g.data.id /\ f.path[1] = g.path[1] /\ f.path[2] = g.path[2]
        /\ h.path[2] < f.path[1]

\* C15: the file write is all-or-nothing for the item's outcome: an
\* identifier whose file write failed part-way (it left an incomplete file)
\* is not Done, and a Done identifier has a file, with the complete header
\* block and the complete body.
C15_WriteAllOrNothing ==
    \A id \in Ids :
        status[id] = "Done" =>
            FilesOf(id) # {} /\ \A f \in FilesOf(id) : f.complete

OutsideWait == {"idle", "check", "get", "acquire", "request", "backoff", "makedirs",
                "write", "insert", "task_done", "courtesy", "exited", "crashed"}

\* C16: the limiter's lock is held only for the check-sleep-update of
\* RateLimiter.wait: a worker that is making its HTTP request, extracting,
\* writing the file or the row, waiting for a retry or in its courtesy sleep
\* (or that has ended) does not hold the lock, so the lock is free whenever
\* no worker is inside wait, and a worker inside wait leaves it with the lock
\* released.
C16_LockOnlyInWait ==
    /\ [](/\ lock \in {0} \cup Workers
          /\ \A w \in Workers : pc[w] \in OutsideWait => lock # w
          /\ (\A w \in Workers : ~InLimiter(w)) => lock = 0)
    /\ [][\A w \in Workers : Granted(w) => lock = w /\ lock' = 0]_vars

\* One worker holds the lock, asleep inside wait, while another is past its
\* own wait: waiting for a retry, or writing.
C16_Witness ==
    \E w \in Workers, v \in Workers :
        /\ w # v
        /\ pc[w] = "sleep" /\ lock = w
        /\ pc[v] \in {"backoff", "insert"}

\* C17: a connection to the articles store is opened and closed within one
\* write: no worker has an open connection while it issues an HTTP request,
\* the retry request after a failed insert or commit included.
C17_NoConnDuringRequest ==
    \A w \in Workers : pc[w] = "request" => conn[w] = "closed"

\* C18: no backoff wait precedes attempt 1; the wait before attempt n + 1
\* (n = 1, 2) is within [4, 10] seconds, and the wait before attempt 3 is
\* strictly greater than the wait before attempt 2.
C18_BackoffGrows ==
    \A w \in Workers :
        pc[w] = "backoff" =>
            /\ attempt[w] \in 1..(MaxAttempts - 1)
            /\ WaitExponential(attempt[w]) \in WaitMin..WaitMax
            /\ attempt[w] > 1 => WaitExponential(attempt[w]) > WaitExponential(attempt[w] - 1)

\* The category the design asks for: the text of the link of the last
\* breadcrumb entry, or the default.
LastEntryText(doc) ==
    IF doc.crumb.found /\ doc.crumb.li # <<>> /\ doc.crumb.li[Len(doc.crumb.li)] # None
    THEN Strip(doc.crumb.li[Len(doc.crumb.li)])
    ELSE <<"No Category">>

\* C19: for a document with a headline the extraction of the category never
\* fails: the attempt raises nothing at the extraction, and the category it
\* persists is the text of the last breadcrumb entry, or "No Category" when
\* there is no breadcrumb, no entry in it, or no link in its last entry.
C19_CategoryNeverFails ==
    [][\A w \in Workers, doc \in Docs :
         (pc[w] = "request" /\ doc.headline # None /\ RequestWith(w, 200, doc)) =>
             /\ exc'[w] = "none"
             /\ Persists(w) => rec'[w].category = LastEntryText(doc)]_vars

InBucket(f, id) == f.data.id = id /\ f.path[1] = BucketLo(id) /\ f.path[1] \in dirs

\* C20: in a run that starts from empty sinks, every identifier that has a
\* row in the articles table has a file in its bucket directory, in every
\* reachable state: the file is written before the row is inserted, and no
\* step removes the file of an identifier. (A file may exist without a row.)
C20_RowImpliesFile ==
    /\ [](\A id \in Ids : HasRow(id) => \E f \in files : InBucket(f, id) /\ f.complete)
    /\ [][\A id \in Ids :
            /\ HasFile(id) => \E f \in files' : f.data.id = id
            /\ (HasRow(id)' /\ ~HasRow(id)) => HasFile(id)]_vars

\* One identifier has its row and its file; another has a file and no row,
\* its insert having failed on the last attempt.
C20_Witness ==
    \E id \in Ids, other \in Ids :
        /\ HasRow(id) /\ HasFile(id) /\ status[id] = "Done"
        /\ HasFile(other) /\ ~HasRow(other) /\ status[other] = "Failed"

=============================================================================
